---- MODULE Spec2Model ----
(***************************************************************************)
(* A model of pptx_slide_copier.SlideCopier: copying slides, layouts,      *)
(* masters, themes and media between two OPC packages.                     *)
(*                                                                         *)
(* A package is a heap of parts (a sequence; a part's identity is its      *)
(* position) plus the presentation element's two id lists and the page     *)
(* size.  Part 1 is the presentation part.  A part is attached to the      *)
(* package only when a chain of relationships leads to it from part 1;     *)
(* a part object that was created but is not yet related to is on the heap *)
(* and invisible to every scan of the package.                             *)
(***************************************************************************)
EXTENDS Integers, Sequences, FiniteSets, TLC

VARIABLES src, tgt, lmap, last, calls

vars == <<src, tgt, lmap, last, calls>>

(***************************************************************************)
(* Bounds of the model.                                                    *)
(***************************************************************************)
MaxCalls == 2

\* Relationship types that are skipped by the generic relationship copy.
STRUCTURAL_REL_TYPES == {"master", "layout", "theme"}

PRS == 1

(***************************************************************************)
(* Parts and relationships.                                                *)
(***************************************************************************)
\* A relationship owned by a part: local id, type, internal target part
\* (0 when external) and external target reference (0 when internal).
Rel(rid, type, tp, ext) == [rid |-> rid, type |-> type, tp |-> tp, ext |-> ext]

\* A part: partname (fam, idx), payload, layout name, owned relationships,
\* the id list of its element (a master's sldLayoutIdLst), the reference
\* attributes of its content tree, and the source part it was copied from
\* (0 for a part that was not made by a copy).
NewPart(kind, fam, idx, blob, name, idLst, refs, orig) ==
    [kind |-> kind, fam |-> fam, idx |-> idx, blob |-> blob, name |-> name,
     rels |-> <<>>, idLst |-> idLst, refs |-> refs, orig |-> orig]

Range(s) == {s[i] : i \in DOMAIN s}

\* The element of a singleton set.  {F(x) : x \in {e}} computes e, then F of
\* its value: a step of a handler that is completed before the next begins.
Only(S) == CHOOSE x \in S : TRUE

\* Step e, then the rest of the handler on its result.
Then(e, F(_)) == Only({F(x) : x \in {e}})

\* An optional argument: None, or a value.
None == [some |-> FALSE, val |-> <<>>]
Some(v) == [some |-> TRUE, val |-> v]

RelsOfType(part, type) == SelectSeq(part.rels, LAMBDA r : r.type = type)

\* part.rels[rId].target_part
RelTarget(part, rid) ==
    (CHOOSE r \in Range(part.rels) : r.rid = rid).tp

\* part.part_related_by(reltype); KeyError when HasRel is false.
HasRel(part, type) == RelsOfType(part, type) # <<>>
part_related_by(part, type) == RelsOfType(part, type)[1].tp

\* _Relationships._next_rId: counts down from len+1 to the first unused id.
next_rId(part) ==
    CHOOSE n \in 1..(Len(part.rels) + 1) :
        /\ \A r \in Range(part.rels) : r.rid # n
        /\ \A m \in (n + 1)..(Len(part.rels) + 1) : \E r \in Range(part.rels) : r.rid = m

\* part.relate_to(target, reltype) and part.relate_to(target_ref, reltype,
\* is_external=True): get-or-add; returns the package and the rId.  An
\* internal target has ext = 0, an external one tp = 0.
relate(pkg, p, tp, ext, type) ==
    Then({r \in Range(pkg.parts[p].rels) : r.type = type /\ r.tp = tp /\ r.ext = ext},
         LAMBDA same :
            IF same # {}
            THEN [t |-> pkg, rid |-> (CHOOSE r \in same : TRUE).rid]
            ELSE Then(next_rId(pkg.parts[p]), LAMBDA rid :
                      [t |-> [pkg EXCEPT !.parts[p].rels = Append(@, Rel(rid, type, tp, ext))],
                       rid |-> rid]))

relate_to(pkg, p, tp, type) == relate(pkg, p, tp, 0, type)
relate_to_ext(pkg, p, ext, type) == relate(pkg, p, 0, ext, type)

\* A new part object on the heap (not attached by this alone).
AddPart(pkg, part) == [pkg EXCEPT !.parts = Append(@, part)]

(***************************************************************************)
(* Scans of the package: everything walks the relationship graph from the  *)
(* presentation part.                                                      *)
(***************************************************************************)
RECURSIVE Closure(_, _)
Closure(pkg, S) ==
    Then(S \cup ({r.tp : r \in UNION {Range(pkg.parts[p].rels) : p \in S}} \ {0}),
         LAMBDA T : IF T = S THEN S ELSE Closure(pkg, T))

\* package.iter_parts()
iter_parts(pkg) == Closure(pkg, {PRS})

\* The highest n <= (number of names) + 1 that is not among the names.
HighestFree(names) ==
    CHOOSE n \in 1..(Cardinality(names) + 1) :
        /\ n \notin names
        /\ \A m \in (n + 1)..(Cardinality(names) + 1) : m \in names

\* package.next_partname(tmpl) over the attached parts of the family.
next_partname(pkg, fam) ==
    HighestFree({pkg.parts[p].idx : p \in {q \in iter_parts(pkg) : pkg.parts[q].fam = fam}})

\* The first position, counting from 1, at which the sorted list of the
\* indices idx[p], p in ps, differs from the position; one past the end when
\* there is none.
FirstGap(idx, ps) ==
    CHOOSE i \in 1..(Cardinality(ps) + 1) :
        \* position j holds the value j for every j < i, and position i does not
        /\ \A j \in 1..(i - 1) : /\ Cardinality({p \in ps : idx[p] <= j}) >= j
                                 /\ Cardinality({p \in ps : idx[p] < j}) < j
        /\ ~ /\ Cardinality({p \in ps : idx[p] <= i}) >= i
             /\ Cardinality({p \in ps : idx[p] < i}) < i

\* package.next_image_partname(ext) over the attached image parts.
next_image_partname(pkg) ==
    FirstGap([p \in DOMAIN pkg.parts |-> pkg.parts[p].idx],
             {p \in iter_parts(pkg) : pkg.parts[p].fam = "image"})

\* prs.slide_masters, master.slide_layouts, prs.slides: the id list resolved
\* through the owner's relationships, in list order.
slide_masters(pkg) ==
    [i \in 1..Len(pkg.sldMasterIdLst) |-> RelTarget(pkg.parts[PRS], pkg.sldMasterIdLst[i])]
slide_layouts(pkg, m) ==
    [i \in 1..Len(pkg.parts[m].idLst) |-> RelTarget(pkg.parts[m], pkg.parts[m].idLst[i])]
slides(pkg) ==
    [i \in 1..Len(pkg.sldIdLst) |-> RelTarget(pkg.parts[PRS], pkg.sldIdLst[i])]

(***************************************************************************)
(* Layout / master / theme copying.  s is the source package, cx the       *)
(* running state of one top-level call: the target package t and the       *)
(* identity cache (source part -> target part, 0 when absent).             *)
(***************************************************************************)
EmptyCache(s) == [p \in 1..Len(s.parts) |-> 0]

\* The payload of the theme of master m of pkg.
ThemeBlob(pkg, m) == pkg.parts[part_related_by(pkg.parts[m], "theme")].blob

\* A variant of _find_matching_master that never finds a match.
find_matching_master_none(s, t, sm) == 0

\* A variant of _find_matching_master that keeps searching and returns the
\* last target master of the theme.
find_matching_master_last(s, t, sm) ==
    IF ~HasRel(s.parts[sm], "theme") THEN 0
    ELSE Then(slide_masters(t), LAMBDA tms :
         Then({i \in DOMAIN tms : /\ HasRel(t.parts[tms[i]], "theme")
                                  /\ ThemeBlob(t, tms[i]) = ThemeBlob(s, sm)},
              LAMBDA hit : IF hit = {} THEN 0
                           ELSE tms[CHOOSE i \in hit : \A j \in hit : i >= j]))

\* _find_matching_master: the first target master whose theme blob equals
\* the source master's; 0 for None.
find_matching_master(s, t, sm) ==
    IF ~HasRel(s.parts[sm], "theme") THEN 0
    ELSE Then(slide_masters(t), LAMBDA tms :
         Then({i \in DOMAIN tms : /\ HasRel(t.parts[tms[i]], "theme")
                                  /\ ThemeBlob(t, tms[i]) = ThemeBlob(s, sm)},
              LAMBDA hit : IF hit = {} THEN 0
                           ELSE tms[CHOOSE i \in hit : \A j \in hit : i <= j]))

\* _copy_theme_part
copy_theme_part(s, cx, sm, tm) ==
    IF ~HasRel(s.parts[sm], "theme") THEN cx
    ELSE Then(part_related_by(s.parts[sm], "theme"), LAMBDA source_theme_part :
         IF cx.cache[source_theme_part] # 0
         THEN [cx EXCEPT !.t = relate_to(cx.t, tm, cx.cache[source_theme_part], "theme").t]
         ELSE Then(next_partname(cx.t, "theme"), LAMBDA partname :
              Then(AddPart(cx.t, NewPart("theme", "theme", partname,
                                         s.parts[source_theme_part].blob,
                                         "", <<>>, <<>>, source_theme_part)),
                   LAMBDA t1 :
                      [t |-> relate_to(t1, tm, Len(t1.parts), "theme").t,
                       cache |-> [cx.cache EXCEPT ![source_theme_part] = Len(t1.parts)]])))

\* ImageParts._find_by_sha1 over the image relationships reachable from the
\* package root; 0 when no attached image part has the payload.
find_by_sha1(t, blob) ==
    Then({r.tp : r \in {q \in UNION {Range(t.parts[p].rels) : p \in iter_parts(t)} :
                           /\ q.type = "image" /\ q.tp # 0
                           /\ t.parts[q.tp].kind = "image" /\ t.parts[q.tp].blob = blob}},
         LAMBDA same : IF same = {} THEN 0 ELSE CHOOSE p \in same : \A q \in same : p <= q)

\* part.get_or_add_image_part(image_stream): returns the package and the rId.
get_or_add_image_part(t, p, blob, orig) ==
    Then(find_by_sha1(t, blob), LAMBDA have :
         IF have # 0 THEN relate_to(t, p, have, "image")
         ELSE Then(AddPart(t, NewPart("image", "image", next_image_partname(t),
                                      blob, "", <<>>, <<>>, orig)),
                   LAMBDA t1 : relate_to(t1, p, Len(t1.parts), "image")))

\* The generic branch of _copy_part_rels: the target of the relationship is
\* copied as a plain Part under a name of the source's naming family.
copy_generic_part(s, t, rel, tp) ==
    Then(next_partname(t, s.parts[rel.tp].fam), LAMBDA new_partname :
    Then(AddPart(t, NewPart(s.parts[rel.tp].kind, s.parts[rel.tp].fam, new_partname,
                            s.parts[rel.tp].blob, "", <<>>, <<>>, rel.tp)),
         LAMBDA t1 : relate_to(t1, tp, Len(t1.parts), rel.type)))

\* One iteration of the loop of _copy_part_rels, for source relationship
\* rel; acc is [t, map] with map the rid_mapping so far.
copy_one_rel(s, acc, rel, tp) ==
    IF rel.type \in STRUCTURAL_REL_TYPES THEN acc
    ELSE Then(IF rel.tp = 0 THEN relate_to_ext(acc.t, tp, rel.ext, rel.type)
              ELSE IF rel.type = "image"
                   THEN get_or_add_image_part(acc.t, tp, s.parts[rel.tp].blob, rel.tp)
                   ELSE copy_generic_part(s, acc.t, rel, tp),
              LAMBDA r :
                 [t |-> r.t,
                  map |-> IF rel.rid # r.rid THEN (rel.rid :> r.rid) @@ acc.map
                          ELSE acc.map])

RECURSIVE copy_part_rels_from(_, _, _, _, _)
copy_part_rels_from(s, acc, sp, tp, i) ==
    IF i > Len(s.parts[sp].rels) THEN acc
    ELSE Then(copy_one_rel(s, acc, s.parts[sp].rels[i], tp), LAMBDA a :
              copy_part_rels_from(s, a, sp, tp, i + 1))

\* _copy_part_rels: returns [t, map].
copy_part_rels(s, t, sp, tp) ==
    copy_part_rels_from(s, [t |-> t, map |-> <<>>], sp, tp, 1)

\* A variant of _remap_rids that rewrites an attribute again when its new
\* value is itself a key of the mapping.
remap_rids_chained(refs, rid_mapping) ==
    [i \in DOMAIN refs |->
        IF refs[i] \in DOMAIN rid_mapping
        THEN IF rid_mapping[refs[i]] \in DOMAIN rid_mapping
             THEN rid_mapping[rid_mapping[refs[i]]]
             ELSE rid_mapping[refs[i]]
        ELSE refs[i]]

\* _remap_rids on the reference attributes of a content tree.
remap_rids(refs, rid_mapping) ==
    [i \in DOMAIN refs |->
        IF refs[i] \in DOMAIN rid_mapping THEN rid_mapping[refs[i]] ELSE refs[i]]

\* if rid_mapping: _remap_rids(new_element, rid_mapping), on part p of cr.t.
remapped(cr, p) ==
    IF DOMAIN cr.map # {}
    THEN [cr.t EXCEPT !.parts[p].refs = remap_rids(cr.t.parts[p].refs, cr.map)]
    ELSE cr.t

\* A variant of _copy_slide_master_part that keeps the sldLayoutIdLst of the
\* cloned element.
copy_slide_master_part_keep_list(s, cx, sm) ==
    Then(next_partname(cx.t, "master"), LAMBDA partname :
    Then(AddPart(cx.t, NewPart("master", "master", partname, 0, "",
                               s.parts[sm].idLst, s.parts[sm].refs, sm)), LAMBDA t1 :
    Then(copy_theme_part(s, [cx EXCEPT !.t = t1], sm, Len(t1.parts)), LAMBDA cx2 :
    Then(copy_part_rels(s, cx2.t, sm, Len(t1.parts)), LAMBDA cr :
    Then(relate_to(remapped(cr, Len(t1.parts)), PRS, Len(t1.parts), "master"), LAMBDA rl :
         [cx |-> [t |-> [rl.t EXCEPT !.sldMasterIdLst = Append(@, rl.rid)],
                  cache |-> cx2.cache],
          part |-> Len(t1.parts)])))))

\* _copy_slide_master_part: returns [cx, part].
copy_slide_master_part(s, cx, sm) ==
    Then(next_partname(cx.t, "master"), LAMBDA partname :
    \* the cloned element, its sldLayoutIdLst removed
    Then(AddPart(cx.t, NewPart("master", "master", partname, 0, "",
                               <<>>, s.parts[sm].refs, sm)), LAMBDA t1 :
    Then(copy_theme_part(s, [cx EXCEPT !.t = t1], sm, Len(t1.parts)), LAMBDA cx2 :
    Then(copy_part_rels(s, cx2.t, sm, Len(t1.parts)), LAMBDA cr :
    Then(relate_to(remapped(cr, Len(t1.parts)), PRS, Len(t1.parts), "master"), LAMBDA rl :
         [cx |-> [t |-> [rl.t EXCEPT !.sldMasterIdLst = Append(@, rl.rid)],
                  cache |-> cx2.cache],
          part |-> Len(t1.parts)])))))

\* _get_or_copy_slide_master: returns [cx, part].
get_or_copy_slide_master(s, cx, sm) ==
    IF cx.cache[sm] # 0 THEN [cx |-> cx, part |-> cx.cache[sm]]
    ELSE Then(copy_slide_master_part(s, cx, sm), LAMBDA r :
              [cx |-> [r.cx EXCEPT !.cache[sm] = r.part], part |-> r.part])

\* _copy_slide_layout_part: returns [cx, part].
copy_slide_layout_part(s, cx, sl) ==
    Then(get_or_copy_slide_master(s, cx, part_related_by(s.parts[sl], "master")), LAMBDA m :
    Then(next_partname(m.cx.t, "layout"), LAMBDA partname :
    Then(AddPart(m.cx.t, NewPart("layout", "layout", partname, 0, s.parts[sl].name,
                                 <<>>, s.parts[sl].refs, sl)), LAMBDA t1 :
    Then(copy_part_rels(s, t1, sl, Len(t1.parts)), LAMBDA cr :
    Then(relate_to(remapped(cr, Len(t1.parts)), Len(t1.parts), m.part, "master"), LAMBDA r1 :
    Then(relate_to(r1.t, m.part, Len(t1.parts), "layout"), LAMBDA rl :
         [cx |-> [t |-> [rl.t EXCEPT !.parts[m.part].idLst = Append(@, rl.rid)],
                  cache |-> m.cx.cache],
          part |-> Len(t1.parts)]))))))

\* _get_or_copy_slide_layout: returns [cx, part].
get_or_copy_slide_layout(s, cx, source_slide) ==
    Then(part_related_by(s.parts[source_slide], "layout"), LAMBDA source_layout_part :
         IF cx.cache[source_layout_part] # 0
         THEN [cx |-> cx, part |-> cx.cache[source_layout_part]]
         ELSE Then(copy_slide_layout_part(s, cx, source_layout_part), LAMBDA r :
                   [cx |-> [r.cx EXCEPT !.cache[source_layout_part] = r.part],
                    part |-> r.part]))

(***************************************************************************)
(* The public operations.                                                  *)
(***************************************************************************)
\* The dict {l.name: l for l in master.slide_layouts}: the last layout of
\* each name wins.
existing_layouts(t, tm) ==
    Then(slide_layouts(t, tm), LAMBDA ls :
         [n \in {t.parts[ls[i]].name : i \in DOMAIN ls} |->
             ls[CHOOSE i \in DOMAIN ls :
                   /\ t.parts[ls[i]].name = n
                   /\ \A j \in DOMAIN ls : t.parts[ls[j]].name = n => j <= i]])

\* A layout is copied and recorded in the cache and in the layout map under
\* its name; st is [t, cache, map].
copy_and_record(s, st, sl) ==
    Then(copy_slide_layout_part(s, [t |-> st.t, cache |-> st.cache], sl), LAMBDA r :
         [t |-> r.cx.t,
          cache |-> [r.cx.cache EXCEPT ![sl] = r.part],
          map |-> (s.parts[sl].name :> r.part) @@ st.map])

\* One iteration of the layout loop of copy_layouts; existing is the dict of
\* the reused master's layouts, or None under a freshly copied master.
copy_layouts_layout(s, st, sl, existing) ==
    IF existing.some
    THEN IF s.parts[sl].name \in DOMAIN existing.val
         THEN [st EXCEPT !.map = (s.parts[sl].name :> existing.val[s.parts[sl].name]) @@ @]
         ELSE copy_and_record(s, st, sl)
    ELSE IF st.cache[sl] = 0
         THEN copy_and_record(s, st, sl)
         ELSE [st EXCEPT !.map = (s.parts[sl].name :> st.cache[sl]) @@ @]

RECURSIVE layouts_from(_, _, _, _, _)
layouts_from(s, st, ls, existing, i) ==
    IF i > Len(ls) THEN st
    ELSE Then(copy_layouts_layout(s, st, ls[i], existing), LAMBDA a :
              layouts_from(s, a, ls, existing, i + 1))

\* One iteration of the master loop of copy_layouts.
copy_layouts_master(s, st, source_master_part) ==
    Then(find_matching_master(s, st.t, source_master_part), LAMBDA matching_target_master :
         IF matching_target_master # 0
         THEN layouts_from(s, [st EXCEPT !.cache[source_master_part] = matching_target_master],
                           slide_layouts(s, source_master_part),
                           Some(existing_layouts(st.t, matching_target_master)), 1)
         ELSE Then(get_or_copy_slide_master(s, [t |-> st.t, cache |-> st.cache],
                                            source_master_part), LAMBDA m :
                   layouts_from(s, [t |-> m.cx.t, cache |-> m.cx.cache, map |-> st.map],
                                slide_layouts(s, source_master_part), None, 1)))

RECURSIVE copy_layouts_from(_, _, _)
copy_layouts_from(s, st, i) ==
    IF i > Len(s.sldMasterIdLst) THEN st
    ELSE Then(copy_layouts_master(s, st, slide_masters(s)[i]), LAMBDA a :
              copy_layouts_from(s, a, i + 1))

\* copy_layouts: returns [t, cache, map], map the returned layout_map
\* (layout name -> target layout part).
copy_layouts(s, t) ==
    copy_layouts_from(s, [t |-> t, cache |-> EmptyCache(s), map |-> <<>>], 1)

\* A presentation without a sldSz element: slide_width and slide_height are
\* None.
NoSize == [w |-> 0, h |-> 0]

\* A variant of _copy_slide_size that leaves a target that has slides alone.
copy_slide_size_if_empty(s, t) ==
    IF s.size = NoSize \/ Len(t.sldIdLst) > 0 THEN t ELSE [t EXCEPT !.size = s.size]

\* _copy_slide_size: assigning the source's None to target_prs.slide_width
\* raises in the setter, and the except clause swallows it.
copy_slide_size(s, t) ==
    IF s.size = NoSize THEN t ELSE [t EXCEPT !.size = s.size]

\* A variant of add_slide that binds the new slide to the target's first
\* layout instead of the resolved one.
add_slide_first_layout(t, target_layout, orig) ==
    Then(AddPart(t, NewPart("slide", "slide", Len(t.sldIdLst) + 1, 0, "",
                            <<>>, <<>>, orig)), LAMBDA t1 :
    Then(relate_to(t1, Len(t1.parts), slide_layouts(t, slide_masters(t)[1])[1], "layout"),
         LAMBDA r1 :
    Then(relate_to(r1.t, PRS, Len(t1.parts), "slide"), LAMBDA rl :
         [t |-> [rl.t EXCEPT !.sldIdLst = Append(@, rl.rid)], part |-> Len(t1.parts)])))

\* A variant of add_slide that puts the new slide first in the slide list.
add_slide_front(t, target_layout, orig) ==
    Then(AddPart(t, NewPart("slide", "slide", Len(t.sldIdLst) + 1, 0, "",
                            <<>>, <<>>, orig)), LAMBDA t1 :
    Then(relate_to(t1, Len(t1.parts), target_layout, "layout"), LAMBDA r1 :
    Then(relate_to(r1.t, PRS, Len(t1.parts), "slide"), LAMBDA rl :
         [t |-> [rl.t EXCEPT !.sldIdLst = <<rl.rid>> \o @], part |-> Len(t1.parts)])))

\* target_prs.slides.add_slide(target_layout): returns [t, part].
add_slide(t, target_layout, orig) ==
    Then(AddPart(t, NewPart("slide", "slide", Len(t.sldIdLst) + 1, 0, "",
                            <<>>, <<>>, orig)), LAMBDA t1 :
    Then(relate_to(t1, Len(t1.parts), target_layout, "layout"), LAMBDA r1 :
    Then(relate_to(r1.t, PRS, Len(t1.parts), "slide"), LAMBDA rl :
         [t |-> [rl.t EXCEPT !.sldIdLst = Append(@, rl.rid)], part |-> Len(t1.parts)])))

\* The relationship loop of _copy_images: every image relationship of the
\* source slide is recorded in the mapping, changed or not.
RECURSIVE copy_images_from(_, _, _, _, _)
copy_images_from(s, acc, source_part, dest_part, i) ==
    IF i > Len(s.parts[source_part].rels) THEN acc
    ELSE Then(IF s.parts[source_part].rels[i].type = "image"
              THEN Then(get_or_add_image_part(
                            acc.t, dest_part,
                            s.parts[s.parts[source_part].rels[i].tp].blob,
                            s.parts[source_part].rels[i].tp),
                        LAMBDA r :
                            [t |-> r.t,
                             map |-> (s.parts[source_part].rels[i].rid :> r.rid) @@ acc.map])
              ELSE acc,
              LAMBDA a : copy_images_from(s, a, source_part, dest_part, i + 1))

\* _copy_images
copy_images(s, t, source_part, dest_part) ==
    remapped(copy_images_from(s, [t |-> t, map |-> <<>>], source_part, dest_part, 1),
             dest_part)

\* The target layout copy_slide resolves for the slide: from the map, or
\* copied on demand with a cache of this call; returns [t, part].
resolve_layout(s, t, source_slide, layout_map) ==
    IF layout_map.some
    THEN [t |-> t,
          part |-> layout_map.val[s.parts[part_related_by(s.parts[source_slide],
                                                          "layout")].name]]
    ELSE Then(get_or_copy_slide_layout(s, [t |-> t, cache |-> EmptyCache(s)], source_slide),
              LAMBDA r : [t |-> r.cx.t, part |-> r.part])

\* copy_slide past the slide lookup: the page size, the layout, the new
\* slide, its shapes and its images.
copy_slide_at(s, source_slide, t, layout_map) ==
    Then(copy_slide_size(s, t), LAMBDA t1 :
         IF /\ layout_map.some
            /\ s.parts[part_related_by(s.parts[source_slide], "layout")].name
                  \notin DOMAIN layout_map.val
         THEN [t |-> t1, err |-> "KeyError", slide |-> 0]
         ELSE
         Then(resolve_layout(s, t1, source_slide, layout_map), LAMBDA lay :
         Then(add_slide(lay.t, lay.part, source_slide), LAMBDA ad :
              \* the shapes, deep-copied with their reference attributes
              [t |-> copy_images(
                         s, [ad.t EXCEPT !.parts[ad.part].refs = @ \o s.parts[source_slide].refs],
                         source_slide, ad.part),
               err |-> "", slide |-> ad.part])))

\* A variant of copy_slide that sets the page size before it looks the slide
\* up.
copy_slide_size_first(s, source_slide_index, t, layout_map) ==
    IF source_slide_index >= Len(s.sldIdLst)
    THEN [t |-> copy_slide_size(s, t), err |-> "IndexError", slide |-> 0]
    ELSE copy_slide_at(s, slides(s)[source_slide_index + 1], t, layout_map)

\* copy_slide: returns [t, err, slide]; err is "" on success, and slide the
\* new slide part.
copy_slide(s, source_slide_index, t, layout_map) ==
    IF source_slide_index >= Len(s.sldIdLst)
    THEN [t |-> t, err |-> "IndexError", slide |-> 0]
    ELSE copy_slide_at(s, slides(s)[source_slide_index + 1], t, layout_map)

\* The loop of copy_slides; st is [t, err, slides].
RECURSIVE copy_slides_from(_, _, _, _, _)
copy_slides_from(s, st, layout_map, slide_indices, i) ==
    IF i > Len(slide_indices) THEN st
    ELSE Then(copy_slide(s, slide_indices[i], st.t, layout_map), LAMBDA r :
              IF r.err # ""
              THEN [t |-> r.t, err |-> r.err, slides |-> st.slides]
              ELSE copy_slides_from(s, [t |-> r.t, err |-> "",
                                        slides |-> Append(st.slides, r.slide)],
                                    layout_map, slide_indices, i + 1))

\* list(range(len(source_prs.slides)))
AllIndices(s) == [i \in 1..Len(s.sldIdLst) |-> i - 1]

\* A variant of copy_slides that does not hand the layout map to copy_slide.
copy_slides_no_map(s, t, slide_indices) ==
    Then(copy_layouts(s, t), LAMBDA cl :
    Then(copy_slides_from(s, [t |-> cl.t, err |-> "", slides |-> <<>>], None,
                          IF ~slide_indices.some THEN AllIndices(s) ELSE slide_indices.val, 1),
         LAMBDA r : [t |-> r.t, err |-> r.err, slides |-> r.slides, map |-> cl.map]))

\* copy_slides: returns [t, err, slides, map].
copy_slides(s, t, slide_indices) ==
    Then(copy_layouts(s, t), LAMBDA cl :
    Then(copy_slides_from(s, [t |-> cl.t, err |-> "", slides |-> <<>>], Some(cl.map),
                          IF ~slide_indices.some THEN AllIndices(s) ELSE slide_indices.val, 1),
         LAMBDA r : [t |-> r.t, err |-> r.err, slides |-> r.slides, map |-> cl.map]))

(***************************************************************************)
(* The packages the operations are run on.                                 *)
(***************************************************************************)
EmptyPackage(size) ==
    [parts |-> << NewPart("prs", "presentation", 1, 0, "", <<>>, <<>>, 0) >>,
     sldMasterIdLst |-> <<>>, sldIdLst |-> <<>>, size |-> size]

\* The number of parts of a naming family on the heap.
CountFam(pkg, fam) == Cardinality({p \in DOMAIN pkg.parts : pkg.parts[p].fam = fam})

\* A master with its theme (theme 0: a master without a theme relationship).
WithMaster(pkg, theme) ==
    LET p1 == AddPart(pkg, NewPart("master", "master", CountFam(pkg, "master") + 1,
                                   0, "", <<>>, <<>>, 0))
        m  == Len(p1.parts)
        p2 == IF theme = 0 THEN p1
              ELSE LET q == AddPart(p1, NewPart("theme", "theme", CountFam(p1, "theme") + 1,
                                                theme, "", <<>>, <<>>, 0))
                   IN  relate_to(q, m, Len(q.parts), "theme").t
        rl == relate_to(p2, PRS, m, "master")
    IN  [rl.t EXCEPT !.sldMasterIdLst = Append(@, rl.rid)]

\* A layout of the given name under the i-th master.
WithLayout(pkg, i, name) ==
    LET m  == slide_masters(pkg)[i]
        p1 == AddPart(pkg, NewPart("layout", "layout", CountFam(pkg, "layout") + 1,
                                   0, name, <<>>, <<>>, 0))
        l  == Len(p1.parts)
        p2 == relate_to(p1, l, m, "master").t
        rl == relate_to(p2, m, l, "layout")
    IN  [rl.t EXCEPT !.parts[m].idLst = Append(@, rl.rid)]

RECURSIVE WithLayouts(_, _, _, _)
WithLayouts(pkg, i, names, k) ==
    IF k > Len(names) THEN pkg
    ELSE Only({WithLayouts(q, i, names, k + 1) : q \in {WithLayout(pkg, i, names[k])}})

\* A slide on layout part l.
WithSlide(pkg, l) == add_slide(pkg, l, 0).t

\* All layout parts of the package, master by master.
AllLayouts(pkg) ==
    LET ms == slide_masters(pkg)
        F[i \in 0..Len(ms)] == IF i = 0 THEN <<>> ELSE F[i - 1] \o slide_layouts(pkg, ms[i])
    IN  F[Len(ms)]

\* Part p gets a relationship of the given type to a new part with the given
\* payload, and a reference attribute naming it.
WithNewTarget(pkg, p, type, fam, blob) ==
    LET q  == AddPart(pkg, NewPart(fam, fam, CountFam(pkg, fam) + 1, blob, "",
                                   <<>>, <<>>, 0))
        rl == relate_to(q, p, Len(q.parts), type)
    IN  [rl.t EXCEPT !.parts[p].refs = Append(@, rl.rid)]

\* Part p gets a relationship to the existing part x, and a reference to it.
WithTarget(pkg, p, type, x) ==
    LET rl == relate_to(pkg, p, x, type)
    IN  [rl.t EXCEPT !.parts[p].refs = Append(@, rl.rid)]

\* The content tree of part p gets a reference attribute of value rid.
WithRef(pkg, p, rid) == [pkg EXCEPT !.parts[p].refs = Append(@, rid)]

\* Part p gets an external relationship (a hyperlink), and a reference to it.
WithLink(pkg, p, ext) ==
    LET rl == relate_to_ext(pkg, p, ext, "hyperlink")
    IN  [rl.t EXCEPT !.parts[p].refs = Append(@, rl.rid)]

RECURSIVE WithTargetAll(_, _, _, _, _)
WithTargetAll(pkg, ps, type, x, k) ==
    IF k > Len(ps) THEN pkg
    ELSE Only({WithTargetAll(q, ps, type, x, k + 1) : q \in {WithTarget(pkg, ps[k], type, x)}})

Decos == {"plain", "shared", "twomedia", "image", "twoimages", "idref"}

\* The non-structural relationships of the source.
Decorate(pkg, deco) ==
    LET ls == AllLayouts(pkg)
        m1 == slide_masters(pkg)[1]
        s1 == slides(pkg)[1]
    IN  CASE deco = "plain" -> pkg
          [] deco = "shared" ->
                \* every layout plays the same media part
                Then(WithNewTarget(pkg, ls[1], "media", "media", 7), LAMBDA q :
                     WithTargetAll(q, ls, "media", Len(q.parts), 2))
          [] deco = "twomedia" ->
                \* the first layout plays two media parts; the master has a chart
                Then(WithNewTarget(pkg, ls[1], "media", "media", 7), LAMBDA q1 :
                Then(WithNewTarget(q1, ls[1], "media", "media", 8), LAMBDA q2 :
                     WithNewTarget(q2, m1, "chart", "chart", 9)))
          [] deco = "image" ->
                \* one picture on the master, the first layout and the first
                \* slide; the layout also has a hyperlink
                Then(WithNewTarget(pkg, m1, "image", "image", 5), LAMBDA q1 :
                Then(WithTarget(q1, ls[1], "image", Len(q1.parts)), LAMBDA q2 :
                Then(WithLink(q2, ls[1], 4), LAMBDA q3 :
                     WithTarget(q3, s1, "image", Len(q1.parts)))))
          [] deco = "twoimages" ->
                \* two pictures on the first layout, one of them on the last slide
                Then(WithNewTarget(pkg, ls[1], "image", "image", 5), LAMBDA q1 :
                Then(WithNewTarget(q1, ls[1], "image", "image", 6), LAMBDA q2 :
                     WithTarget(q2, slides(pkg)[Len(pkg.sldIdLst)], "image", Len(q2.parts))))
          [] deco = "idref" ->
                \* the second layout has a reference attribute whose value is
                \* the id of its master relationship, and plays a media part
                Then(WithRef(pkg, ls[2], pkg.parts[ls[2]].rels[1].rid), LAMBDA q1 :
                     WithNewTarget(q1, ls[2], "media", "media", 7))

\* The themes of the source's masters, in master order (0: no theme).
SrcThemes == {<<1>>, <<0>>, <<3>>, <<1, 3>>, <<3, 3>>, <<0, 1>>, <<3, 0>>}

\* The name of the only layout of the source's second master.
SecondNames == {"A", "C"}

\* The names of the two layouts of the source's first master.
FirstNames == {<<"A", "B">>, <<"B", "B">>}

SrcSize == [w |-> 10, h |-> 7]

\* The page sizes of the source: as the tests set it, or none declared.
SrcSizes == {SrcSize, NoSize}

\* The source: the first master has two layouts, a second master one
\* layout; slides on the first layout, the last layout and the first again.
Source(themes, names1, name2, deco, size) ==
    Then(WithMaster(EmptyPackage(size), themes[1]), LAMBDA p0 :
    Then(WithLayouts(p0, 1, names1, 1), LAMBDA p1 :
    Then(IF Len(themes) = 1 THEN p1 ELSE WithMaster(p1, themes[2]), LAMBDA p2 :
    Then(IF Len(themes) = 1 THEN p2 ELSE WithLayout(p2, 2, name2), LAMBDA p3 :
    Then(WithSlide(p3, AllLayouts(p3)[1]), LAMBDA p4 :
    Then(WithSlide(p4, AllLayouts(p4)[Len(AllLayouts(p4))]), LAMBDA p5 :
    Then(WithSlide(p5, AllLayouts(p5)[1]), LAMBDA p6 :
         Decorate(p6, deco))))))))

TgtKinds == {"same", "multi"}
TgtSizes == {[w |-> 10, h |-> 7], [w |-> 13, h |-> 7]}

\* The target before the first call: the default template (theme 1, layout
\* A), or a package of two masters, the first without a theme, with a slide.
Target(kind, size) ==
    IF kind = "same"
    THEN Then(WithMaster(EmptyPackage(size), 1), LAMBDA p1 : WithLayout(p1, 1, "A"))
    ELSE Then(WithMaster(EmptyPackage(size), 0), LAMBDA p1 :
         Then(WithLayout(p1, 1, "B"), LAMBDA p2 :
         Then(WithMaster(p2, 3), LAMBDA p3 :
         Then(WithLayout(p3, 2, "A"), LAMBDA p4 :
              WithSlide(p4, AllLayouts(p4)[2])))))

\* The record of the last call: its arguments, the target before it (pre),
\* the call before it (prev) and what it returned or raised.
NoCall == [op |-> "none", prev |-> "none", pre |-> <<>>, idx |-> 0, indices |-> None, layout_map |-> None,
           err |-> "", slide |-> 0, slides |-> <<>>, map |-> <<>>]

Init ==
    /\ \E themes \in SrcThemes, names1 \in FirstNames, name2 \in SecondNames,
          deco \in Decos, size \in SrcSizes :
          /\ Len(themes) = 1 => name2 = "A"
          /\ names1 # <<"A", "B">> => (deco = "plain" /\ name2 = "A" /\ size = SrcSize)
          /\ size # SrcSize => (deco = "plain" /\ Len(themes) = 1)
          /\ src = Source(themes, names1, name2, deco, size)
    /\ \E kind \in TgtKinds, size \in TgtSizes : tgt = Target(kind, size)
    /\ lmap = None
    /\ last = NoCall
    /\ calls = 0

(***************************************************************************)
(* The calls a client makes.                                               *)
(***************************************************************************)
\* Slide indices a caller passes: the valid ones and one past the end.
Indices == 0..Len(src.sldIdLst)

\* The index lists passed to copy_slides.
IndexLists == {<<0, 2>>, <<2, 1, 0>>, <<1, 1>>, <<1, 3, 0>>}

\* The restriction of a dict to some of its keys.
Restrict(f, K) == [k \in K |-> f[k]]

\* layout_map = SlideCopier.copy_layouts(source_prs, target_prs)
CopyLayouts ==
    /\ calls < MaxCalls
    /\ LET r == copy_layouts(src, tgt)
       IN  /\ tgt' = r.t
           /\ lmap' = Some(r.map)
           /\ last' = [NoCall EXCEPT !.op = "copy_layouts", !.prev = last.op, !.pre = tgt, !.map = r.map]
    /\ calls' = calls + 1
    /\ UNCHANGED src

\* SlideCopier.copy_slide(source_prs, idx, target_prs)
CopySlide ==
    /\ calls < MaxCalls
    /\ \E idx \in Indices :
          LET r == copy_slide(src, idx, tgt, None)
          IN  /\ tgt' = r.t
              /\ last' = [NoCall EXCEPT !.op = "copy_slide", !.prev = last.op, !.pre = tgt, !.idx = idx,
                                        !.err = r.err, !.slide = r.slide]
    /\ calls' = calls + 1
    /\ UNCHANGED <<src, lmap>>

\* SlideCopier.copy_slide(source_prs, idx, target_prs, _layout_map=m), m the
\* dict the last copy_layouts returned, or that dict with keys missing.
CopySlideWithMap ==
    /\ calls < MaxCalls
    /\ lmap.some
    /\ \E idx \in Indices, K \in SUBSET (DOMAIN lmap.val) :
          LET m == Some(Restrict(lmap.val, K))
              r == copy_slide(src, idx, tgt, m)
          IN  /\ tgt' = r.t
              /\ last' = [NoCall EXCEPT !.op = "copy_slide", !.prev = last.op, !.pre = tgt, !.idx = idx,
                                        !.layout_map = m, !.err = r.err, !.slide = r.slide]
    /\ calls' = calls + 1
    /\ UNCHANGED <<src, lmap>>

\* SlideCopier.copy_slides(source_prs, target_prs, slide_indices)
CopySlides ==
    /\ calls < MaxCalls
    /\ \E indices \in {None} \cup {Some(l) : l \in IndexLists} :
          LET r == copy_slides(src, tgt, indices)
          IN  /\ tgt' = r.t
              /\ last' = [NoCall EXCEPT !.op = "copy_slides", !.prev = last.op, !.pre = tgt,
                                        !.indices = indices, !.err = r.err,
                                        !.slides = r.slides, !.map = r.map]
    /\ calls' = calls + 1
    /\ UNCHANGED <<src, lmap>>

Next == CopyLayouts \/ CopySlide \/ CopySlideWithMap \/ CopySlides

Spec == Init /\ [][Next]_vars

(***************************************************************************)
(* Properties.                                                             *)
(***************************************************************************)
\* The slide indices copy_slides worked through in the last call.
LastIndices == IF last.indices.some THEN last.indices.val ELSE AllIndices(src)

\* The layout part of a slide part, and the layout of the source slide at a
\* 0-based index.
LayoutOf(pkg, slide) == part_related_by(pkg.parts[slide], "layout")
SrcLayoutAt(idx) == LayoutOf(src, slides(src)[idx + 1])

\* The parts the last call put on the heap of the target.
NewParts == (Len(last.pre.parts) + 1)..Len(tgt.parts)
NewOfKind(kind) == {p \in NewParts : tgt.parts[p].kind = kind}

\* C1: a successful copy_slide, standalone or with the layout map that
\* copy_layouts returned, returns a new slide, the last of the target, whose
\* layout has the name of the source slide's layout.
C1_LayoutNamePreserved ==
    (/\ last.op = "copy_slide"
     /\ last.idx < Len(src.sldIdLst)
     /\ (last.layout_map.some => last.layout_map.val = lmap.val))
    => /\ last.err = ""
       /\ last.slide \in NewParts
       /\ slides(tgt) = Append(slides(last.pre), last.slide)
       /\ tgt.parts[LayoutOf(tgt, last.slide)].kind = "layout"
       /\ tgt.parts[LayoutOf(tgt, last.slide)].name = src.parts[SrcLayoutAt(last.idx)].name

\* C1 witness: a slide on layout B, a name the target did not have, was
\* copied through the layout map.
C1_Witness ==
    /\ last.op = "copy_slide"
    /\ last.layout_map.some
    /\ last.err = ""
    /\ src.parts[SrcLayoutAt(last.idx)].name = "B"
    /\ tgt.parts[LayoutOf(tgt, last.slide)].name = "B"

\* C2: after copy_slides, two copied slides whose source slides share a
\* layout reference one and the same target layout part.
C2_SharedLayoutPart ==
    last.op = "copy_slides"
    => \A i, j \in DOMAIN last.slides :
          SrcLayoutAt(LastIndices[i]) = SrcLayoutAt(LastIndices[j])
          => LayoutOf(tgt, last.slides[i]) = LayoutOf(tgt, last.slides[j])

\* C2 witness: a batch that copied two slides of one source layout and a
\* slide of another layout in between.
C2_Witness ==
    /\ last.op = "copy_slides"
    /\ last.err = ""
    /\ \E i, j, k \in DOMAIN last.slides :
          /\ i < k /\ k < j
          /\ SrcLayoutAt(LastIndices[i]) = SrcLayoutAt(LastIndices[j])
          /\ SrcLayoutAt(LastIndices[i]) # SrcLayoutAt(LastIndices[k])
          /\ LayoutOf(tgt, last.slides[i]) = LayoutOf(tgt, last.slides[j])
          /\ LayoutOf(tgt, last.slides[i]) # LayoutOf(tgt, last.slides[k])

\* The theme payloads of the masters of a package, and whether a source
\* master's theme payload is that of some master of a package.
MasterThemes(pkg) ==
    {ThemeBlob(pkg, m) : m \in {x \in Range(slide_masters(pkg)) : HasRel(pkg.parts[x], "theme")}}
ThemeMatched(pkg, sm) ==
    /\ HasRel(src.parts[sm], "theme")
    /\ ThemeBlob(src, sm) \in MasterThemes(pkg)

\* C3 as stated: copy_layouts adds as many theme parts as there are source
\* masters whose theme payload is not that of a master the target had.
C3_ThemePerUnmatchedMaster ==
    last.op = "copy_layouts"
    => Cardinality(NewOfKind("theme"))
          = Cardinality({sm \in Range(slide_masters(src)) : ~ThemeMatched(last.pre, sm)})

\* C3 amended: copy_layouts creates no theme part for a source master whose
\* theme payload is that of a master the target had, and the number of theme
\* parts it adds is the number of distinct theme payloads of source masters
\* that no master of the target had before the call.
C3_ThemePerNewPayload ==
    last.op = "copy_layouts"
    => /\ \A sm \in Range(slide_masters(src)) :
             ThemeMatched(last.pre, sm)
             => \A p \in NewOfKind("theme") :
                   tgt.parts[p].orig # part_related_by(src.parts[sm], "theme")
       /\ Cardinality(NewOfKind("theme"))
             = Cardinality(MasterThemes(src) \ MasterThemes(last.pre))

\* C3 witness: of two source masters, one had its theme in the target and
\* the other did not; one theme part was added.
C3_Witness ==
    /\ last.op = "copy_layouts"
    /\ \E a, b \in Range(slide_masters(src)) :
          /\ ThemeMatched(last.pre, a)
          /\ HasRel(src.parts[b], "theme")
          /\ ~ThemeMatched(last.pre, b)
    /\ Cardinality(NewOfKind("theme")) = 1

\* The master of the source slide at a 0-based index.
SrcMasterAt(idx) == part_related_by(src.parts[SrcLayoutAt(idx)], "master")

\* C4: a standalone copy_slide of a slide whose master's theme payload is
\* that of a target master adds no master part and no theme part.
C4_StandaloneReusesMaster ==
    (/\ last.op = "copy_slide"
     /\ ~last.layout_map.some
     /\ last.err = ""
     /\ ThemeMatched(last.pre, SrcMasterAt(last.idx)))
    => /\ NewOfKind("master") = {}
       /\ NewOfKind("theme") = {}

\* The numbers of theme, master and layout parts in a package.
PartCounts(pkg) ==
    [k \in {"theme", "master", "layout"} |->
        Cardinality({p \in iter_parts(pkg) : pkg.parts[p].kind = k})]

\* C5: a copy_layouts that follows a copy_layouts leaves the numbers of
\* theme, master and layout parts of the target as they were.
C5_CopyLayoutsIdempotent ==
    (last.op = "copy_layouts" /\ last.prev = "copy_layouts")
    => PartCounts(tgt) = PartCounts(last.pre)

\* C6: copy_slide with an index that is not in the source raises IndexError
\* and leaves the whole target as it was: parts, relationships, slide list
\* and page size.
C6_InvalidIndexNoChange ==
    (last.op = "copy_slide" /\ last.idx >= Len(src.sldIdLst))
    => /\ last.err = "IndexError"
       /\ tgt = last.pre

\* C6 witness: the index was out of range against a target whose page size
\* differs from the source's and which kept it.
C6_Witness ==
    /\ last.op = "copy_slide"
    /\ last.idx >= Len(src.sldIdLst)
    /\ last.err = "IndexError"
    /\ last.pre.size # src.size
    /\ tgt.size = last.pre.size

\* C7: copy_slide with a layout map that lacks the slide's layout name
\* raises KeyError and leaves the whole target as it was.
C7_LookupMissNoChange ==
    (/\ last.op = "copy_slide"
     /\ last.layout_map.some
     /\ last.idx < Len(src.sldIdLst)
     /\ src.parts[SrcLayoutAt(last.idx)].name \notin DOMAIN last.layout_map.val)
    => /\ last.err = "KeyError"
       /\ tgt = last.pre

\* The indices a copy_slides call is to work through, and how many of them
\* it reaches: all, or those before the first one that is not in the source.
Requested ==
    IF last.indices.some THEN last.indices.val
    ELSE [i \in 1..Len(src.sldIdLst) |-> i - 1]
Reached ==
    IF \A i \in DOMAIN Requested : Requested[i] < Len(src.sldIdLst)
    THEN Len(Requested)
    ELSE (CHOOSE i \in DOMAIN Requested :
             /\ Requested[i] >= Len(src.sldIdLst)
             /\ \A j \in 1..(i - 1) : Requested[j] < Len(src.sldIdLst)) - 1

\* C8: copy_slides appends to the target's slide list, behind the slides it
\* had, one copy per requested index in the order of the indices (all indices
\* ascending when none are given) and returns them in that order; when an
\* index fails, the slides before it stay appended in order.
C8_SlidesAppendedInOrder ==
    last.op = "copy_slides"
    => /\ slides(tgt) = slides(last.pre) \o last.slides
       /\ Len(last.slides) = Reached
       /\ (last.err = "") = (Reached = Len(Requested))
       /\ \A i \in DOMAIN last.slides :
             /\ last.slides[i] \in NewOfKind("slide")
             /\ tgt.parts[last.slides[i]].orig = slides(src)[Requested[i] + 1]
       /\ \A i, j \in DOMAIN last.slides : i # j => last.slides[i] # last.slides[j]

\* C8 witness: three slides were copied in descending index order behind a
\* slide the target already had.
C8_Witness ==
    /\ last.op = "copy_slides"
    /\ last.err = ""
    /\ last.indices = Some(<<2, 1, 0>>)
    /\ Len(slides(last.pre)) >= 1
    /\ Len(slides(tgt)) = Len(slides(last.pre)) + 3
    /\ tgt.parts[slides(tgt)[Len(slides(tgt))]].orig = slides(src)[1]

\* C9: in one call, at most one target part is created per source master,
\* layout, theme, image or media part.
C9_OneCopyPerSourcePart ==
    last.op # "none"
    => \A sp \in DOMAIN src.parts :
          Cardinality({p \in NewParts : /\ tgt.parts[p].kind # "slide"
                                         /\ tgt.parts[p].orig = sp}) <= 1

\* C10: no two distinct parts of the target package have the same partname.
C10_PartNamesUnique ==
    \A p, q \in iter_parts(tgt) :
       (tgt.parts[p].fam = tgt.parts[q].fam /\ tgt.parts[p].idx = tgt.parts[q].idx)
       => p = q

\* An id list holds exactly the ids of the relationships of a type that a
\* part owns, each once.
ListsRels(idLst, part, type) ==
    /\ \A i, j \in DOMAIN idLst : idLst[i] = idLst[j] => i = j
    /\ Range(idLst) = {r.rid : r \in Range(RelsOfType(part, type))}

\* C11: after every call, the layout id list of each master of the target
\* holds exactly one entry per layout relationship of that master, and the
\* presentation's master id list exactly one entry per master relationship
\* of the presentation.
C11_IdListsMatchRels ==
    /\ ListsRels(tgt.sldMasterIdLst, tgt.parts[PRS], "master")
    /\ \A m \in DOMAIN tgt.parts :
          tgt.parts[m].kind = "master"
          => ListsRels(tgt.parts[m].idLst, tgt.parts[m], "layout")

\* C11 witness: a call copied a master whose source has two layouts in its
\* list; the copy lists the two layouts copied under it.
C11_Witness ==
    /\ last.op # "none"
    /\ \E m \in NewOfKind("master") :
          /\ Len(src.parts[tgt.parts[m].orig].idLst) = 2
          /\ Len(tgt.parts[m].idLst) = 2
          /\ \A i \in 1..2 : RelTarget(tgt.parts[m], tgt.parts[m].idLst[i]) \in NewOfKind("layout")

\* The first master of a package, in master order, whose theme payload is
\* that of source master sm (which has a theme and a match).
FirstMatching(pkg, sm) ==
    slide_masters(pkg)[CHOOSE i \in DOMAIN pkg.sldMasterIdLst :
        /\ HasRel(pkg.parts[slide_masters(pkg)[i]], "theme")
        /\ ThemeBlob(pkg, slide_masters(pkg)[i]) = ThemeBlob(src, sm)
        /\ \A j \in 1..(i - 1) :
              HasRel(pkg.parts[slide_masters(pkg)[j]], "theme")
              => ThemeBlob(pkg, slide_masters(pkg)[j]) # ThemeBlob(src, sm)]

\* The names of the layouts of a master.
LayoutNames(pkg, m) == {pkg.parts[l].name : l \in Range(slide_layouts(pkg, m))}

\* C12: after copy_layouts, for a source layout under a source master that
\* matched a target master by theme: when that target master had a layout of
\* the source layout's name before the call, or got one for an earlier layout
\* of the same source master, no layout part was created for the source
\* layout and the returned map sends the name to a layout of that name under
\* the reused master.
C12_ReusedMasterKeepsLayouts ==
    last.op = "copy_layouts"
    => \A sm \in Range(slide_masters(src)) :
          ThemeMatched(last.pre, sm)
          => \A k \in DOMAIN slide_layouts(src, sm) :
                (\/ src.parts[slide_layouts(src, sm)[k]].name
                       \in LayoutNames(last.pre, FirstMatching(last.pre, sm))
                 \/ \E j \in 1..(k - 1) :
                       src.parts[slide_layouts(src, sm)[j]].name
                          = src.parts[slide_layouts(src, sm)[k]].name)
                => /\ \A p \in NewOfKind("layout") :
                         tgt.parts[p].orig # slide_layouts(src, sm)[k]
                   /\ last.map[src.parts[slide_layouts(src, sm)[k]].name]
                         \in Range(slide_layouts(tgt, FirstMatching(last.pre, sm)))

\* C13 as stated: after every successful copy_slide the target's page width
\* and height are the source's.
C13_SizeEqualsSource ==
    (last.op = "copy_slide" /\ last.err = "")
    => tgt.size = src.size

\* C13 amended: after every successful copy_slide the target's page width
\* and height are the source's when the source declares a page size, whether
\* or not the target had slides; when the source declares none the target
\* keeps its own.
C13_SizeCopiedWhenDeclared ==
    (last.op = "copy_slide" /\ last.err = "")
    => IF src.size # NoSize THEN tgt.size = src.size
       ELSE tgt.size = last.pre.size

\* C13 witness: a slide was copied into a target that had a slide and another
\* page size, and the target took the source's page size.
C13_Witness ==
    /\ last.op = "copy_slide"
    /\ last.err = ""
    /\ Len(last.pre.sldIdLst) >= 1
    /\ src.size # NoSize
    /\ last.pre.size # src.size
    /\ tgt.size = src.size

\* The parts of the target that are copies of a source master or layout.
CopiedStyleParts ==
    {p \in DOMAIN tgt.parts : /\ tgt.parts[p].kind \in {"master", "layout"}
                              /\ tgt.parts[p].orig # 0}

\* The non-structural relationships of a part.
NonStructural(part) == {r \in Range(part.rels) : r.type \notin STRUCTURAL_REL_TYPES}

\* Target relationship q stands for source relationship r: same type and the
\* same external reference, or a part of equal payload.
SameTarget(r, q) ==
    /\ q.type = r.type
    /\ IF r.tp = 0 THEN q.tp = 0 /\ q.ext = r.ext
       ELSE /\ q.tp # 0
            /\ tgt.parts[q.tp].blob = src.parts[r.tp].blob

\* C14: in every copy of a source master or layout, a reference attribute
\* whose source value names a non-structural relationship of the source part
\* names a relationship of the copy with the same type and an equivalent
\* target; any other reference attribute keeps its source value; and the copy
\* has no structural relationship but the ones made for the hierarchy: a
\* layout its one master, a master at most one theme and its listed layouts.
C14_ReferencesResolve ==
    \A p \in CopiedStyleParts :
       /\ Len(tgt.parts[p].refs) = Len(src.parts[tgt.parts[p].orig].refs)
       /\ \A i \in DOMAIN tgt.parts[p].refs :
             IF \E r \in NonStructural(src.parts[tgt.parts[p].orig]) :
                   r.rid = src.parts[tgt.parts[p].orig].refs[i]
             THEN \E r \in NonStructural(src.parts[tgt.parts[p].orig]),
                     q \in Range(tgt.parts[p].rels) :
                     /\ r.rid = src.parts[tgt.parts[p].orig].refs[i]
                     /\ q.rid = tgt.parts[p].refs[i]
                     /\ SameTarget(r, q)
             ELSE tgt.parts[p].refs[i] = src.parts[tgt.parts[p].orig].refs[i]
       /\ Cardinality(NonStructural(tgt.parts[p]))
             <= Cardinality(NonStructural(src.parts[tgt.parts[p].orig]))
       /\ IF tgt.parts[p].kind = "layout"
          THEN /\ Len(RelsOfType(tgt.parts[p], "master")) = 1
               /\ RelsOfType(tgt.parts[p], "layout") = <<>>
               /\ RelsOfType(tgt.parts[p], "theme") = <<>>
          ELSE /\ RelsOfType(tgt.parts[p], "master") = <<>>
               /\ Len(RelsOfType(tgt.parts[p], "theme")) <= 1
               /\ Len(RelsOfType(tgt.parts[p], "layout")) = Len(tgt.parts[p].idLst)

\* C14 witness: a copied layout has two rewritten reference attributes, and
\* the new value of one is the source value of the other.
C14_Witness ==
    \E p \in CopiedStyleParts :
       \E i, j \in DOMAIN tgt.parts[p].refs :
          /\ i # j
          /\ tgt.parts[p].refs[i] # src.parts[tgt.parts[p].orig].refs[i]
          /\ tgt.parts[p].refs[j] # src.parts[tgt.parts[p].orig].refs[j]
          /\ tgt.parts[p].refs[i] = src.parts[tgt.parts[p].orig].refs[j]

\* C15: for every source master and the target as it stands, the theme
\* matcher returns no match exactly when the source master has no theme or no
\* target master has a theme of the same payload (target masters without a
\* theme are passed over), and otherwise a master of the target that has the
\* payload and is preceded in the master list by no master that has it.
C15_FirstThemeMatch ==
    \A sm \in Range(slide_masters(src)) :
       IF ~ThemeMatched(tgt, sm)
       THEN find_matching_master(src, tgt, sm) = 0
       ELSE \E i \in DOMAIN tgt.sldMasterIdLst :
               /\ find_matching_master(src, tgt, sm) = slide_masters(tgt)[i]
               /\ HasRel(tgt.parts[slide_masters(tgt)[i]], "theme")
               /\ ThemeBlob(tgt, slide_masters(tgt)[i]) = ThemeBlob(src, sm)
               /\ \A j \in 1..(i - 1) :
                     HasRel(tgt.parts[slide_masters(tgt)[j]], "theme")
                     => ThemeBlob(tgt, slide_masters(tgt)[j]) # ThemeBlob(src, sm)

\* C15 witness: copy_layouts ran on a target that had a master without a
\* theme first, then two masters of the source master's theme; the matcher
\* returned the earlier of the two, and the returned map sends the names of
\* the source master's layouts to layouts under that master.
C15_Witness ==
    /\ last.op = "copy_layouts"
    /\ Len(last.pre.sldMasterIdLst) >= 3
    /\ ~HasRel(last.pre.parts[slide_masters(last.pre)[1]], "theme")
    /\ \E sm \in Range(slide_masters(src)) :
          /\ ThemeMatched(last.pre, sm)
          /\ find_matching_master(src, last.pre, sm) = slide_masters(last.pre)[2]
          /\ \E k \in 3..Len(last.pre.sldMasterIdLst) :
                /\ HasRel(last.pre.parts[slide_masters(last.pre)[k]], "theme")
                /\ ThemeBlob(last.pre, slide_masters(last.pre)[k]) = ThemeBlob(src, sm)
          /\ \A l \in Range(slide_layouts(src, sm)) :
                last.map[src.parts[l].name]
                   \in Range(slide_layouts(tgt, slide_masters(last.pre)[2]))

\* The master of a slide of the target.
MasterOf(slide) == part_related_by(tgt.parts[LayoutOf(tgt, slide)], "master")

\* C16: after copy_slides, every copied slide whose source master has a theme
\* reaches, through its layout and that layout's master, a theme of the same
\* payload as its source slide does.
C16_ThemeFollowsSlide ==
    last.op = "copy_slides"
    => \A i \in DOMAIN last.slides :
          HasRel(src.parts[SrcMasterAt(Requested[i])], "theme")
          => /\ HasRel(tgt.parts[MasterOf(last.slides[i])], "theme")
             /\ ThemeBlob(tgt, MasterOf(last.slides[i]))
                   = ThemeBlob(src, SrcMasterAt(Requested[i]))

====
